---- MODULE Spec2Model ----
(***************************************************************************)
(* KinPeek admin console client (the DOMContentLoaded callback of the      *)
(* admin page script).  The page is single threaded: every event handler   *)
(* runs to its first await, and every continuation after an await runs to  *)
(* the next one, without interleaving; one action of this module is one    *)
(* such run.  The backend is the environment: it answers each request in   *)
(* flight with any status, reads and changes its share table when it       *)
(* processes a request, and answers requests in any order.                 *)
(*                                                                         *)
(* The user reaches a control only while it is displayed: the login form   *)
(* while loginSection is shown, the forms, buttons and table rows of       *)
(* adminContent while it is shown, the save and cancel buttons of the edit *)
(* dialog while editModal is shown (showLogin does not hide the dialog).   *)
(* The values of the form fields are the user's: a handler reads whatever  *)
(* was typed last, so they are inputs of the action that reads them.       *)
(***************************************************************************)
EXTENDS Integers, Sequences, FiniteSets, Bags

\* Bounds of the model.
MaxInFlight == 2
MaxFormsInFlight == 1
MaxShareId == 1

\* The bearer tokens the backend hands out, and the share ids it assigns.
Tokens == {"t1", "t2"}
ShareIds == 1..MaxShareId

VARIABLES
    authToken,      \* let authToken
    localStorage,   \* localStorage['kinpeek_token']
    view,           \* which of loginSection / adminContent is displayed
    loginError,     \* loginError.textContent
    shareMessage,   \* shareMessage.textContent
    shareError,     \* shareError.textContent
    editError,      \* editError.textContent
    editModal,      \* editModal.style.display
    editShareId,    \* editShareIdInput.value
    table,          \* sharedVideosTableBody content
    inflight,       \* bag of requests awaiting their response
    db,             \* backend: ids of the share records that exist
    nextId,         \* backend: next share id to assign
    last,           \* the handler run that was executed last, and its log
    gone,           \* history: ids whose delete succeeded and whose follow-up refresh was rendered
    lastSession,    \* history: last session event (login / logout / 401)
    sinceLogout,    \* history: "clean" from a logout until the next login submission
    row,            \* one table row and the edit dialog fields filled from it
    cfg             \* what this run tracks; never changes

vars == <<authToken, localStorage, view, loginError, shareMessage, shareError,
          editError, editModal, editShareId, table, inflight, db, nextId,
          last, gone, lastSession, sinceLogout, row, cfg>>

----------------------------------------------------------------------------
\* JavaScript values

Null == "<null>"
Undefined == "<undefined>"

\* !v for the values a token can take
Truthy(v) == v \notin {Null, Undefined, ""}

\* String(v), as localStorage.setItem applies it to the value it stores
StringOf(v) == IF v = Undefined THEN "undefined" ELSE IF v = Null THEN "null" ELSE v

\* localStorage.getItem: null for a missing key, else the stored string
GetItem(stored) == stored

----------------------------------------------------------------------------
\* parseInt(str, 10) on strings given as sequences of characters

Digits == {"0", "1", "2", "3", "4", "5", "6", "7", "8", "9"}

DigitVal(c) ==
    CASE c = "0" -> 0 [] c = "1" -> 1 [] c = "2" -> 2 [] c = "3" -> 3 [] c = "4" -> 4
      [] c = "5" -> 5 [] c = "6" -> 6 [] c = "7" -> 7 [] c = "8" -> 8 [] c = "9" -> 9

RECURSIVE SkipSpace(_)
SkipSpace(str) ==
    IF str # <<>> /\ Head(str) = " " THEN SkipSpace(Tail(str)) ELSE str

RECURSIVE DigitPrefix(_)
DigitPrefix(str) ==
    IF str # <<>> /\ Head(str) \in Digits
        THEN <<Head(str)>> \o DigitPrefix(Tail(str))
        ELSE <<>>

RECURSIVE Decimal(_, _)
Decimal(ds, acc) ==
    IF ds = <<>> THEN acc ELSE Decimal(Tail(ds), 10 * acc + DigitVal(Head(ds)))

\* The result is kept as a record so that NaN and a number never get compared.
parseInt(str) ==
    LET t == SkipSpace(str)
        signed == t # <<>> /\ Head(t) \in {"-", "+"}
        u == IF signed THEN Tail(t) ELSE t
        ds == DigitPrefix(u)
    IN  IF ds = <<>>
            THEN [nan |-> TRUE, n |-> 0]
            ELSE [nan |-> FALSE,
                  n |-> IF signed /\ Head(t) = "-" THEN 0 - Decimal(ds, 0) ELSE Decimal(ds, 0)]

isNaN(x) == x.nan


\* An integer literal: an optional sign and one or more decimal digits, nothing else
IsIntegerLiteral(str) ==
    LET u == IF str # <<>> /\ Head(str) \in {"-", "+"} THEN Tail(str) ELSE str
    IN  u # <<>> /\ \A i \in 1..Len(u) : u[i] \in Digits

----------------------------------------------------------------------------
\* Table body contents

Blank == [state |-> "blank", rows |-> {}]
ErrorRow == [state |-> "error", rows |-> {}]
EmptyRow == [state |-> "empty", rows |-> {}]
Rows(ids) == [state |-> "rows", rows |-> ids]

----------------------------------------------------------------------------
\* The row of the table is followed by a specification of its own (SpecRow).
NoRow == [phase |-> "off"]

----------------------------------------------------------------------------
\* The log of one handler run

NewLog ==
    [calls |-> 0,           \* calls of apiRequest
     apiTok |-> Null,       \* authToken when apiRequest was entered
     sent |-> 0,            \* calls of fetch
     apiError |-> "",       \* the error apiRequest raised
     thrown |-> "",         \* the error now propagating
     refreshes |-> 0,       \* calls of fetchSharedVideos
     alerts |-> 0]          \* calls of alert

\* The page state the handlers work on; handlers are functions of it.
Cur ==
    [authToken |-> authToken, localStorage |-> localStorage, view |-> view,
     loginError |-> loginError, shareMessage |-> shareMessage,
     shareError |-> shareError, editError |-> editError, editModal |-> editModal,
     editShareId |-> editShareId, table |-> table, inflight |-> inflight,
     log |-> NewLog]

\* A request in flight.  done: the backend has processed it; rows: the list it read.
Req(kind, tok, id) ==
    [kind |-> kind, tok |-> tok, id |-> id, done |-> FALSE, rows |-> {}]

OkStatuses == {"200", "204"}
FailStatuses == {"401", "500", "neterr"}

----------------------------------------------------------------------------
\* Helper functions of the script

\* Mutant: showLogin leaves the persisted token in place.
showLogin_KeepStored(s) == [s EXCEPT !.view = "login", !.authToken = Null]

showLogin(s) ==
    [s EXCEPT !.view = "login", !.localStorage = Null, !.authToken = Null]

clearMessages(s) ==
    [s EXCEPT !.loginError = "", !.shareMessage = "", !.shareError = "", !.editError = ""]

\* fetch(url, options): the request leaves
fetch(s, req) ==
    [s EXCEPT !.inflight = @ (+) SetToBag({req}), !.log.sent = @ + 1]

\* Mutant: the token check at the head of apiRequest is missing.
apiRequest_NoGuard(s, kind, id) ==
    fetch([s EXCEPT !.log.calls = @ + 1, !.log.apiTok = s.authToken],
          Req(kind, s.authToken, id))

\* apiRequest up to its await (every caller passes requiresAuth = true)
apiRequest(s, kind, id) ==
    LET s1 == [s EXCEPT !.log.calls = @ + 1, !.log.apiTok = s.authToken]
    IN  IF ~Truthy(s1.authToken)
            THEN [showLogin(s1) EXCEPT !.log.apiError = "Not authenticated",
                                       !.log.thrown = "Not authenticated"]
            ELSE fetch(s1, Req(kind, s1.authToken, id))

\* Mutant: a 401 is treated like any other non-success status.
apiResponse_No401(s, status) ==
    CASE status = "neterr" ->
            [s EXCEPT !.log.apiError = "Failed to fetch", !.log.thrown = "Failed to fetch"]
      [] status \notin OkStatuses ->
            [s EXCEPT !.log.apiError = "Unknown error", !.log.thrown = "Unknown error"]
      [] OTHER -> s

\* apiRequest after its await, given the status of the response
apiResponse(s, status) ==
    CASE status = "neterr" ->
            [s EXCEPT !.log.apiError = "Failed to fetch", !.log.thrown = "Failed to fetch"]
      [] status = "401" ->
            [showLogin(s) EXCEPT !.log.apiError = "Authentication failed",
                                 !.log.thrown = "Authentication failed"]
      [] status \notin OkStatuses ->
            [s EXCEPT !.log.apiError = "Unknown error", !.log.thrown = "Unknown error"]
      [] OTHER -> s

renderSharedVideos(s, videos) ==
    IF videos = {}
        THEN [s EXCEPT !.table = EmptyRow]
        ELSE [s EXCEPT !.table = Rows(videos)]

\* Mutant: fetchSharedVideos without its try/catch.
fetchSharedVideos_NoCatch(s, after) ==
    apiRequest([s EXCEPT !.log.refreshes = @ + 1], "list", after)

\* fetchSharedVideos up to its await; after: the id whose delete asked for it, or 0
fetchSharedVideos(s, after) ==
    LET s1 == apiRequest([s EXCEPT !.log.refreshes = @ + 1], "list", after)
    IN  IF s1.log.thrown # ""
            THEN [s1 EXCEPT !.table = ErrorRow, !.log.thrown = ""]
            ELSE s1

\* Mutant: showAdmin only switches the view.
showAdmin_NoFetch(s) == [s EXCEPT !.view = "admin", !.loginError = ""]

showAdmin(s) ==
    fetchSharedVideos([s EXCEPT !.view = "admin", !.loginError = ""], 0)

\* The body of the DOMContentLoaded callback on a fresh document
PageLoad(stored) ==
    LET s0 == [authToken |-> GetItem(stored), localStorage |-> stored, view |-> "login",
               loginError |-> "", shareMessage |-> "", shareError |-> "",
               editError |-> "", editModal |-> "none", editShareId |-> 0,
               table |-> Blank, inflight |-> EmptyBag, log |-> NewLog]
    IN  IF Truthy(s0.authToken) THEN showAdmin(s0) ELSE showLogin(s0)

----------------------------------------------------------------------------
\* Writing a handler run back

\* The text of a message element is written and never read by the script, and the
\* id in the edit dialog only names the record in the request's URL; a run with
\* cfg.texts off leaves the texts untracked, and a run with cfg.observe off the id
\* and the history.
Text(str) == IF cfg.texts THEN str ELSE ""
Field(n) == IF cfg.observe THEN n ELSE 0

\* The run is followed unless it leaves more requests in flight than the run tracks.
CanSend(s) == BagCardinality(s.inflight) <= cfg.cap

Commit(s, act, status, tok, malformed) ==
    /\ CanSend(s)
    /\ authToken' = s.authToken
    /\ localStorage' = s.localStorage
    /\ view' = s.view
    /\ loginError' = Text(s.loginError)
    /\ shareMessage' = Text(s.shareMessage)
    /\ shareError' = Text(s.shareError)
    /\ editError' = Text(s.editError)
    /\ editModal' = s.editModal
    /\ editShareId' = Field(s.editShareId)
    /\ table' = s.table
    /\ inflight' = s.inflight
    /\ last' = [act |-> act, status |-> status, tok |-> tok,
                malformed |-> malformed, log |-> s.log]
    /\ sinceLogout' = IF ~cfg.observe THEN sinceLogout
                      ELSE IF act = "Logout" THEN "clean"
                      ELSE IF act = "LoginSubmit" THEN "none" ELSE sinceLogout
    /\ UNCHANGED <<cfg, row>>

Take(r) == [Cur EXCEPT !.inflight = @ (-) SetToBag({r})]


PageInit(c) ==
    /\ cfg = c
    /\ \E stored \in {Null} \cup c.tokens :
          LET s == PageLoad(stored)
          IN  /\ authToken = s.authToken
              /\ localStorage = s.localStorage
              /\ view = s.view
              /\ loginError = s.loginError
              /\ shareMessage = s.shareMessage
              /\ shareError = s.shareError
              /\ editError = s.editError
              /\ editModal = s.editModal
              /\ editShareId = s.editShareId
              /\ table = s.table
              /\ inflight = s.inflight
              /\ last = [act |-> "PageLoad", status |-> "", tok |-> Null,
                         malformed |-> FALSE, log |-> s.log]
              /\ lastSession = IF c.observe /\ Truthy(stored) THEN "login" ELSE "none"
    /\ db = {}
    /\ nextId = 1
    /\ gone = {}
    /\ sinceLogout = "none"

InitWith(c) == PageInit(c) /\ row = NoRow

Server == UNCHANGED <<authToken, localStorage, view, loginError, shareMessage, shareError,
                      editError, editModal, editShareId, table, last, gone, lastSession,
                      sinceLogout, row, cfg>>

Replace(r, r2) == inflight' = (inflight (-) SetToBag({r})) (+) SetToBag({r2})

\* What the user may have typed into a text field and into a numeric field
Names == {"", "x"}
NumInputs == {<<>>, <<"7">>, <<"7", "x">>, <<"-", "1", "2">>}

\* A response with status 401 to a protected request ends the session.
SessionAfter(status) == IF cfg.observe /\ status = "401" THEN "401" ELSE lastSession

\* The statuses the backend can answer request r with
Answers(r) == IF r.done THEN OkStatuses ELSE FailStatuses

----------------------------------------------------------------------------
\* Session: login form, logout button

loginSubmit(s) == fetch(clearMessages(s), Req("login", Null, 0))

\* Mutant: the token is kept in memory and not written to localStorage.
loginResponse_NoPersist(s, status, body) ==
    IF status \notin OkStatuses
        THEN showLogin([s EXCEPT !.loginError = "Login failed"])
        ELSE showAdmin([s EXCEPT !.authToken = body])

\* The login handler after its await; body: data.access_token
loginResponse(s, status, body) ==
    IF status = "neterr"
        THEN showLogin([s EXCEPT !.loginError = "Failed to fetch"])
        ELSE IF status \notin OkStatuses
            THEN showLogin([s EXCEPT !.loginError = "Login failed"])
            ELSE showAdmin([s EXCEPT !.authToken = body, !.localStorage = StringOf(body)])

LoginSubmit ==
    /\ view = "login"
    /\ Commit(loginSubmit(Cur), "LoginSubmit", "", Null, FALSE)
    /\ UNCHANGED <<db, nextId, gone, lastSession>>

LoginResponse ==
    \E r \in BagToSet(inflight), status \in {"200"} \cup FailStatuses,
       body \in cfg.tokens \cup {Undefined} :
        /\ r.kind = "login"
        /\ Commit(loginResponse(Take(r), status, body), "LoginResponse", status,
                  IF status = "200" THEN body ELSE Null, FALSE)
        /\ lastSession' = IF ~cfg.observe THEN lastSession
                          ELSE IF status = "200"
                              THEN (IF Truthy(body) THEN "login" ELSE "notoken")
                              ELSE IF status = "401" THEN "401" ELSE lastSession
        /\ UNCHANGED <<db, nextId, gone>>

\* Mutant: logout forgets the persisted token.
logout_KeepStored(s) == [s EXCEPT !.view = "login", !.authToken = Null]

logout(s) == showLogin(s)

Logout ==
    /\ view = "admin"
    /\ Commit(logout(Cur), "Logout", "", Null, FALSE)
    /\ lastSession' = IF cfg.observe THEN "logout" ELSE lastSession
    /\ UNCHANGED <<db, nextId, gone>>

\* A reload runs the script again on a fresh document; localStorage is kept and the
\* responses of the old document's requests are never delivered.
Reload ==
    /\ Commit(PageLoad(localStorage), "PageLoad", "", Null, FALSE)
    /\ UNCHANGED <<db, nextId, gone, lastSession>>

----------------------------------------------------------------------------
\* Title lookup

lookupTitle(s, stashId) ==
    LET s1 == clearMessages(s)
    IN  IF stashId = <<>>
            THEN [s1 EXCEPT !.shareError = "Please enter a Stash Video ID."]
            ELSE LET s2 == apiRequest(s1, "title", 0)
                 IN  IF s2.log.thrown # ""
                         THEN [s2 EXCEPT !.shareError = "Error looking up title",
                                         !.log.thrown = ""]
                         ELSE s2

titleResponse(s, status, hasTitle) ==
    LET s1 == apiResponse(s, status)
    IN  IF s1.log.thrown # ""
            THEN [s1 EXCEPT !.shareError = "Error looking up title", !.log.thrown = ""]
            ELSE IF status = "200" /\ hasTitle
                THEN s1
                ELSE [s1 EXCEPT !.shareError = "Could not find title for this ID."]

LookupTitle ==
    \E stashId \in {<<>>, <<"7">>} :
        /\ view = "admin"
        /\ Commit(lookupTitle(Cur, stashId), "LookupTitle", "", Null, FALSE)
        /\ UNCHANGED <<db, nextId, gone, lastSession>>

TitleResponse ==
    \E r \in BagToSet(inflight), status \in OkStatuses \cup FailStatuses, hasTitle \in BOOLEAN :
        /\ r.kind = "title"
        /\ Commit(titleResponse(Take(r), status, hasTitle), "TitleResponse", status, r.tok, FALSE)
        /\ lastSession' = SessionAfter(status)
        /\ UNCHANGED <<db, nextId, gone>>

----------------------------------------------------------------------------
\* Share list: refresh button and list responses

RefreshClick ==
    /\ view = "admin"
    /\ Commit(fetchSharedVideos(Cur, 0), "RefreshClick", "", Null, FALSE)
    /\ UNCHANGED <<db, nextId, gone, lastSession>>

\* Mutant: a failed list request is sent again.
listResponse_Retry(s, status, videos) ==
    LET s1 == apiResponse(s, status)
    IN  IF s1.log.thrown # ""
            THEN fetchSharedVideos([s1 EXCEPT !.log.thrown = ""], 0)
            ELSE renderSharedVideos(s1, IF status = "204" THEN {} ELSE videos)

\* fetchSharedVideos after its await; videos: the parsed body of a 200 response
listResponse(s, status, videos) ==
    LET s1 == apiResponse(s, status)
    IN  IF s1.log.thrown # ""
            THEN [s1 EXCEPT !.table = ErrorRow, !.log.thrown = ""]
            ELSE renderSharedVideos(s1, IF status = "204" THEN {} ELSE videos)

ServerList ==
    \E r \in BagToSet(inflight) :
        /\ r.kind = "list"
        /\ ~r.done
        /\ Replace(r, [r EXCEPT !.done = TRUE, !.rows = db])
        /\ UNCHANGED <<db, nextId>>
        /\ Server

ListResponse ==
    \E r \in BagToSet(inflight), status \in OkStatuses \cup FailStatuses :
        /\ r.kind = "list"
        /\ status \in Answers(r)
        /\ Commit(listResponse(Take(r), status, r.rows), "ListResponse", status, r.tok, FALSE)
        /\ gone' = IF cfg.observe /\ status \in OkStatuses /\ r.id # 0
                       THEN gone \cup {r.id} ELSE gone
        /\ lastSession' = SessionAfter(status)
        /\ UNCHANGED <<db, nextId>>

----------------------------------------------------------------------------
\* Create form

\* Mutant: the create handler refreshes the list without awaiting the request.
shareSubmit_NoAwait(s, name, stash, days) ==
    LET s1 == clearMessages(s)
    IN  IF name = "" \/ isNaN(parseInt(stash)) \/ isNaN(parseInt(days))
            THEN [s1 EXCEPT !.shareError = "Please fill in all fields correctly."]
            ELSE LET s2 == apiRequest(s1, "share", 0)
                 IN  IF s2.log.thrown # ""
                         THEN [s2 EXCEPT !.shareError = "Failed to share video",
                                         !.log.thrown = ""]
                         ELSE fetchSharedVideos(s2, 0)

shareSubmit(s, name, stash, days) ==
    LET s1 == clearMessages(s)
    IN  IF name = "" \/ isNaN(parseInt(stash)) \/ isNaN(parseInt(days))
            THEN [s1 EXCEPT !.shareError = "Please fill in all fields correctly."]
            ELSE LET s2 == apiRequest(s1, "share", 0)
                 IN  IF s2.log.thrown # ""
                         THEN [s2 EXCEPT !.shareError = "Failed to share video",
                                         !.log.thrown = ""]
                         ELSE s2

\* The create handler after its await.  A 204 makes apiRequest return null, and
\* reading result.share_url then throws into the handler's catch.
shareResponse(s, status) ==
    LET s1 == apiResponse(s, status)
    IN  IF s1.log.thrown # "" \/ status = "204"
            THEN [s1 EXCEPT !.shareError = "Failed to share video", !.log.thrown = ""]
            ELSE fetchSharedVideos(
                    [s1 EXCEPT !.shareMessage = "Video shared successfully!"], 0)

ShareSubmit ==
    \E name \in Names, stash \in NumInputs, days \in NumInputs :
        /\ view = "admin"
        /\ Commit(shareSubmit(Cur, name, stash, days), "ShareSubmit", "", Null,
                  name = "" \/ ~IsIntegerLiteral(stash) \/ ~IsIntegerLiteral(days))
        /\ UNCHANGED <<db, nextId, gone, lastSession>>

ServerShare ==
    \E r \in BagToSet(inflight) :
        /\ r.kind = "share"
        /\ ~r.done
        /\ nextId <= MaxShareId
        /\ Replace(r, [r EXCEPT !.done = TRUE, !.id = nextId])
        /\ db' = db \cup {nextId}
        /\ nextId' = nextId + 1
        /\ Server

ShareResponse ==
    \E r \in BagToSet(inflight), status \in OkStatuses \cup FailStatuses :
        /\ r.kind = "share"
        /\ status \in Answers(r)
        /\ Commit(shareResponse(Take(r), status), "ShareResponse", status, r.tok, FALSE)
        /\ lastSession' = SessionAfter(status)
        /\ UNCHANGED <<db, nextId, gone>>

----------------------------------------------------------------------------
\* Row buttons and the edit dialog

editOpen(s, shareId) ==
    clearMessages([s EXCEPT !.editShareId = shareId, !.editModal = "block"])

EditOpen ==
    \E shareId \in table.rows :
        /\ view = "admin"
        /\ Commit(editOpen(Cur, shareId), "EditOpen", "", Null, FALSE)
        /\ UNCHANGED <<db, nextId, gone, lastSession>>

EditCancel ==
    /\ editModal = "block"
    /\ Commit([Cur EXCEPT !.editModal = "none"], "EditCancel", "", Null, FALSE)
    /\ UNCHANGED <<db, nextId, gone, lastSession>>

saveEdit(s, name, days) ==
    LET s1 == clearMessages(s)
    IN  IF name = "" \/ isNaN(parseInt(days))
            THEN [s1 EXCEPT !.editError = "Please fill in all fields correctly."]
            ELSE LET s2 == apiRequest(s1, "edit", s1.editShareId)
                 IN  IF s2.log.thrown # ""
                         THEN [s2 EXCEPT !.editError = "Failed to update share",
                                         !.log.thrown = ""]
                         ELSE s2

\* Mutant: the continuation of the save handler clears every message first.
editResponse_Clears(s, status) ==
    LET s1 == apiResponse(clearMessages(s), status)
    IN  IF s1.log.thrown # ""
            THEN [s1 EXCEPT !.editError = "Failed to update share", !.log.thrown = ""]
            ELSE fetchSharedVideos([s1 EXCEPT !.editModal = "none"], 0)

editResponse(s, status) ==
    LET s1 == apiResponse(s, status)
    IN  IF s1.log.thrown # ""
            THEN [s1 EXCEPT !.editError = "Failed to update share", !.log.thrown = ""]
            ELSE fetchSharedVideos([s1 EXCEPT !.editModal = "none"], 0)

SaveEdit ==
    \E name \in Names, days \in NumInputs :
        /\ editModal = "block"
        /\ Commit(saveEdit(Cur, name, days), "SaveEdit", "", Null,
                  name = "" \/ ~IsIntegerLiteral(days))
        /\ UNCHANGED <<db, nextId, gone, lastSession>>

EditResponse ==
    \E r \in BagToSet(inflight), status \in OkStatuses \cup FailStatuses :
        /\ r.kind = "edit"
        /\ Commit(editResponse(Take(r), status), "EditResponse", status, r.tok, FALSE)
        /\ lastSession' = SessionAfter(status)
        /\ UNCHANGED <<db, nextId, gone>>

deleteClick(s, shareId, confirmed) ==
    IF ~confirmed
        THEN s
        ELSE LET s1 == apiRequest(s, "delete", shareId)
             IN  IF s1.log.thrown # ""
                     THEN [s1 EXCEPT !.log.alerts = @ + 1, !.log.thrown = ""]
                     ELSE s1

deleteResponse(s, status, shareId) ==
    LET s1 == apiResponse(s, status)
    IN  IF s1.log.thrown # ""
            THEN [s1 EXCEPT !.log.alerts = @ + 1, !.log.thrown = ""]
            ELSE fetchSharedVideos(s1, shareId)

DeleteClick ==
    \E shareId \in table.rows, confirmed \in BOOLEAN :
        /\ view = "admin"
        /\ Commit(deleteClick(Cur, shareId, confirmed), "DeleteClick", "", Null, FALSE)
        /\ UNCHANGED <<db, nextId, gone, lastSession>>

ServerDelete ==
    \E r \in BagToSet(inflight) :
        /\ r.kind = "delete"
        /\ ~r.done
        /\ r.id \in db
        /\ Replace(r, [r EXCEPT !.done = TRUE])
        /\ db' = db \ {r.id}
        /\ UNCHANGED nextId
        /\ Server

DeleteResponse ==
    \E r \in BagToSet(inflight), status \in OkStatuses \cup FailStatuses :
        /\ r.kind = "delete"
        /\ status \in Answers(r)
        /\ Commit(deleteResponse(Take(r), status, r.id), "DeleteResponse", status, r.tok, FALSE)
        /\ lastSession' = SessionAfter(status)
        /\ UNCHANGED <<db, nextId, gone>>

----------------------------------------------------------------------------

Next ==
    \/ LoginSubmit
    \/ LoginResponse
    \/ Logout
    \/ Reload
    \/ LookupTitle
    \/ TitleResponse
    \/ RefreshClick
    \/ ServerList
    \/ ListResponse
    \/ ShareSubmit
    \/ ServerShare
    \/ ShareResponse
    \/ EditOpen
    \/ EditCancel
    \/ SaveEdit
    \/ EditResponse
    \/ DeleteClick
    \/ ServerDelete
    \/ DeleteResponse

\* Every detail tracked: both tokens, the message elements, the history.
Init == InitWith([tokens |-> Tokens, observe |-> TRUE, texts |-> TRUE, cap |-> MaxInFlight])

\* One token, message elements and history untracked.
InitPlain == InitWith([tokens |-> {"t1"}, observe |-> FALSE, texts |-> FALSE, cap |-> MaxInFlight])

\* One token, the message elements tracked, the history not.
InitForms == InitWith([tokens |-> {"t1"}, observe |-> FALSE, texts |-> TRUE, cap |-> MaxFormsInFlight])

SpecForms == InitForms /\ [][Next]_vars


Spec == InitPlain /\ [][Next]_vars

SpecDetail == Init /\ [][Next]_vars

----------------------------------------------------------------------------
\* One row of the table: renderSharedVideos writes it from a share record, the
\* HTML parser reads the markup back, and a click on its edit button fills the
\* edit dialog from the row's data attributes.  Strings are sequences of
\* characters, times are milliseconds since the epoch.

MsPerDay == 86400000
MaxDays == 4
MaxNameLen == 2

\* Numbers are records, as parseInt gives them; the time of a Date made from a
\* string that is no date is NaN.
NaN == [nan |-> TRUE, n |-> 0]
Num(n) == [nan |-> FALSE, n |-> n]

Max(a, b) == IF a >= b THEN a ELSE b

\* Math.ceil(a / b) of integers a and b > 0
Ceil(a, b) == 0 - ((0 - a) \div b)

\* Mutant: the result is not clamped at zero.
calculateDaysRemaining_NoClamp(expiresAt, now) ==
    IF expiresAt.nan THEN NaN ELSE Num(Ceil(expiresAt.n - now, MsPerDay))

\* expiresAt: new Date(expiresAt).getTime(); now: new Date().getTime()
calculateDaysRemaining(expiresAt, now) ==
    IF expiresAt.nan
        THEN NaN
        ELSE Num(Max(0, Ceil(expiresAt.n - now, MsPerDay)))

DigitChar(d) ==
    CASE d = 0 -> "0" [] d = 1 -> "1" [] d = 2 -> "2" [] d = 3 -> "3" [] d = 4 -> "4"
      [] d = 5 -> "5" [] d = 6 -> "6" [] d = 7 -> "7" [] d = 8 -> "8" [] d = 9 -> "9"

RECURSIVE DecimalString(_)
DecimalString(n) ==
    IF n < 10 THEN <<DigitChar(n)>> ELSE DecimalString(n \div 10) \o <<DigitChar(n % 10)>>

\* String(x) of a number, as a template literal applies it
NumberToString(x) ==
    IF x.nan THEN <<"N", "a", "N">>
    ELSE IF x.n < 0 THEN <<"-">> \o DecimalString(0 - x.n) ELSE DecimalString(x.n)

\* div.appendChild(createTextNode(str)); div.innerHTML: the serialisation of a
\* text node replaces & < > and leaves every other character, quotes included
RECURSIVE escapeHTML(_)
escapeHTML(str) ==
    IF str = <<>> THEN <<>>
    ELSE LET c == Head(str)
             e == CASE c = "&" -> <<"&", "a", "m", "p", ";">>
                    [] c = "<" -> <<"&", "l", "t", ";">>
                    [] c = ">" -> <<"&", "g", "t", ";">>
                    [] OTHER -> <<c>>
         IN  e \o escapeHTML(Tail(str))

StartsWith(str, p) == Len(str) >= Len(p) /\ SubSeq(str, 1, Len(p)) = p
Drop(str, k) == SubSeq(str, k + 1, Len(str))

\* The part of the markup that a double-quoted attribute value takes: up to the
\* first double quote
RECURSIVE UpToQuote(_)
UpToQuote(markup) ==
    IF markup = <<>> \/ Head(markup) = "\"" THEN <<>>
    ELSE <<Head(markup)>> \o UpToQuote(Tail(markup))

\* The character references of an attribute value, decoded
RECURSIVE DecodeRefs(_)
DecodeRefs(str) ==
    IF str = <<>> THEN <<>>
    ELSE IF StartsWith(str, <<"&", "a", "m", "p", ";">>) THEN <<"&">> \o DecodeRefs(Drop(str, 5))
    ELSE IF StartsWith(str, <<"&", "l", "t", ";">>) THEN <<"<">> \o DecodeRefs(Drop(str, 4))
    ELSE IF StartsWith(str, <<"&", "g", "t", ";">>) THEN <<">">> \o DecodeRefs(Drop(str, 4))
    ELSE <<Head(str)>> \o DecodeRefs(Tail(str))

\* getAttribute of an attribute written as name="${markup}" into innerHTML
AttributeValue(markup) == DecodeRefs(UpToQuote(markup))

\* x || d for a number x
OrDefault(x, d) == IF x.nan \/ x.n = 0 THEN d ELSE x.n

\* The values the edit-button handler puts into the name and days fields
editPrefill(nameAttr, daysAttr) ==
    [video_name |-> nameAttr,
     days_valid |-> Max(1, OrDefault(parseInt(daysAttr), 7))]

\* The instants and the names the row is followed for
Times == {d * MsPerDay + e : d \in 0..MaxDays, e \in {0, 1, MsPerDay \div 2, MsPerDay - 1}}
NameChars == {"a", "\"", "<", "&"}
VideoNames == UNION {[1..k -> NameChars] : k \in 0..MaxNameLen}

\* The variables of the page, which the row leaves alone
page == <<authToken, localStorage, view, loginError, shareMessage, shareError,
          editError, editModal, editShareId, table, inflight, db, nextId,
          last, gone, lastSession, sinceLogout, cfg>>

\* video: one record of the list response
RowOf(video) ==
    [phase |-> "record", video_name |-> video.video_name, expires_at |-> video.expires_at,
     now |-> 0, days |-> NaN, nameAttr |-> <<>>, daysAttr |-> <<>>,
     editVideoName |-> <<>>, editDaysValid |-> 0]

\* renderSharedVideos writes the row; now: the clock when it does
RenderRow ==
    /\ row.phase = "record"
    /\ \E now \in Times :
          LET days == calculateDaysRemaining(row.expires_at, now)
          IN  row' = [row EXCEPT !.phase = "rendered",
                                 !.now = now,
                                 !.days = days,
                                 !.nameAttr = AttributeValue(escapeHTML(row.video_name)),
                                 !.daysAttr = AttributeValue(NumberToString(days))]
    /\ UNCHANGED page

\* A click on the row's edit button
EditPrefill ==
    /\ row.phase = "rendered"
    /\ LET f == editPrefill(row.nameAttr, row.daysAttr)
       IN  row' = [row EXCEPT !.phase = "editing",
                              !.editVideoName = f.video_name,
                              !.editDaysValid = f.days_valid]
    /\ UNCHANGED page

InitRow ==
    /\ PageInit([tokens |-> {}, observe |-> FALSE, texts |-> FALSE, cap |-> 0])
    /\ \E name \in VideoNames, expiry \in {Num(t) : t \in Times} \cup {NaN} :
          row = RowOf([video_name |-> name, expires_at |-> expiry])

NextRow == RenderRow \/ EditPrefill

SpecRow == InitRow /\ [][NextRow]_vars

----------------------------------------------------------------------------
\* Properties

ProtectedResponses ==
    {"ListResponse", "ShareResponse", "EditResponse", "DeleteResponse", "TitleResponse"}
MutationSubmits == {"ShareSubmit", "SaveEdit", "DeleteClick"}
MutationResponses == {"ShareResponse", "EditResponse", "DeleteResponse"}
Mutations == {"share", "edit", "delete"}

\* C1: a handler run that calls apiRequest while the token is absent sends nothing,
\* raises the local error 'Not authenticated' and ends in the login view.
C1_GuardShortCircuits ==
    (last.log.calls > 0 /\ ~Truthy(last.log.apiTok)) =>
        /\ last.log.sent = 0
        /\ last.log.apiError = "Not authenticated"
        /\ view = "login"
        /\ ~Truthy(authToken)

\* The refresh after a successful create ran into the guard (the user had logged out).
C1_Witness ==
    /\ last.act = "ShareResponse"
    /\ last.status = "200"
    /\ last.log.calls = 1
    /\ ~Truthy(last.log.apiTok)
    /\ last.log.apiError = "Not authenticated"

\* C2: right after a 401 to any protected request has been handled, the token in
\* memory and the persisted token are cleared and the login view is shown.
C2_ForcedLogoutOn401 ==
    (last.act \in ProtectedResponses /\ last.status = "401") =>
        /\ authToken = Null
        /\ localStorage = Null
        /\ view = "login"

\* A 401 to an edit request was handled while another request was in flight.
C2_Witness ==
    /\ last.act = "EditResponse"
    /\ last.status = "401"
    /\ inflight # EmptyBag

\* C3: a login response with a success status and a token leaves that token in
\* memory and in localStorage, the admin view shown, and has called
\* fetchSharedVideos once, which sent one list request carrying the token.
C3_LoginSuccess ==
    (last.act = "LoginResponse" /\ last.status = "200" /\ Truthy(last.tok)) =>
        /\ authToken = last.tok
        /\ localStorage = last.tok
        /\ view = "admin"
        /\ last.log.refreshes = 1
        /\ last.log.sent = 1
        /\ \E r \in BagToSet(inflight) : r.kind = "list" /\ r.tok = last.tok

\* A login succeeded while another login submission was still in flight.
C3_Witness ==
    /\ last.act = "LoginResponse"
    /\ last.status = "200"
    /\ Truthy(last.tok)
    /\ \E r \in BagToSet(inflight) : r.kind = "login"

\* The login request (it carries no token and names no record)
LoginReq == Req("login", Null, 0)

\* C4 (as claimed): handling a failed login sets the login error and leaves the
\* view as it was.
C4_FailedLoginKeepsView ==
    [][(/\ last'.act = "LoginResponse"
        /\ last'.status \in FailStatuses
        /\ CopiesIn(LoginReq, inflight') < CopiesIn(LoginReq, inflight))
       => (loginError' # "" /\ view' = view)]_vars

\* C5 (as claimed): no list request is in flight together with a create, edit or
\* delete request.
C5_NoRefreshDuringMutation ==
    ~ \E r \in BagToSet(inflight), m \in BagToSet(inflight) :
        r.kind = "list" /\ m.kind \in Mutations

\* C5 (amended): a create, edit or delete handler sends a list request only in the
\* run that handles the success response of its own request, which by then is no
\* longer in flight.
C5_FollowUpAfterSuccess ==
    [][(/\ last'.act \in MutationSubmits \cup MutationResponses
        /\ \E r \in BagToSet(inflight' (-) inflight) : r.kind = "list" /\ ~r.done)
       => (/\ last'.act \in MutationResponses
           /\ last'.status \in OkStatuses
           /\ last'.log.refreshes = 1
           /\ \E m \in BagToSet(inflight (-) inflight') :
                 /\ m.kind \in Mutations
                 /\ m.done \/ m.kind = "edit"
                 /\ CopiesIn(m, inflight') < CopiesIn(m, inflight))]_vars

\* A delete succeeded and its follow-up list request left, with another request
\* still in flight.
C5_Witness ==
    /\ last.act = "DeleteResponse"
    /\ last.status \in OkStatuses
    /\ last.log.sent = 1
    /\ BagCardinality(inflight) = 2

\* C6 (as claimed): once the delete of a record has succeeded and the refresh sent by
\* the delete handler has been rendered, the table never shows that record again.
C6_DeletedNeverShown ==
    table.state = "rows" => table.rows \cap gone = {}

\* C7 (as claimed): a create or edit submission with an empty name or a numeric
\* field that is not an integer literal is rejected locally: the inline error is
\* set and apiRequest is not called.
C7_MalformedRejected ==
    (last.act \in {"ShareSubmit", "SaveEdit"} /\ last.malformed) =>
        /\ last.log.calls = 0
        /\ last.log.sent = 0
        /\ last.act = "ShareSubmit" => shareError = "Please fill in all fields correctly."
        /\ last.act = "SaveEdit" => editError = "Please fill in all fields correctly."

\* C8 (as claimed): after a create response with a success status the handler has
\* called fetchSharedVideos once, the confirmation is shown and the create error
\* does not say the create failed.
C8_CreateSuccessRefreshes ==
    (last.act = "ShareResponse" /\ last.status \in OkStatuses) =>
        /\ last.log.refreshes = 1
        /\ shareMessage = "Video shared successfully!"
        /\ shareError # "Failed to share video"

\* C9: a click on the logout button clears the token in memory and the persisted
\* token, shows the login view and leaves the requests in flight as they are.
C9_Logout ==
    [][(last'.act = "Logout" /\ view = "admin")
       => (/\ authToken' = Null
           /\ localStorage' = Null
           /\ view' = "login"
           /\ inflight' = inflight
           /\ last'.log.sent = 0
           /\ last'.log.calls = 0)]_vars

\* The user has logged out while requests were in flight.
C9_Witness ==
    /\ last.act = "Logout"
    /\ BagCardinality(inflight) = 2
    /\ view = "login"

\* C10 (as claimed): a page load starts in the admin view and sends a list request
\* exactly when the last session event was a successful login, and starts in the
\* login view when it was a logout or a 401.
C10_ReloadFollowsSession ==
    (last.act = "PageLoad" /\ lastSession \in {"login", "logout", "401"}) =>
        ((view = "admin" /\ last.log.sent = 1) <=> lastSession = "login")

\* C11: the days-remaining value of a row is never negative, is 0 for every
\* expiry at or before the instant of rendering, and is 3, give or take 1, for an
\* expiry exactly three days after it.
C11_DaysRemaining ==
    row.phase \in {"rendered", "editing"} =>
        /\ row.days.nan \/ row.days.n >= 0
        /\ ~row.expires_at.nan =>
              /\ ~row.days.nan
              /\ row.expires_at.n <= row.now => row.days.n = 0
              /\ row.expires_at.n - row.now = 3 * MsPerDay => row.days.n \in 2..4

\* A row was rendered more than a day after its record expired.
C11_Witness ==
    /\ row.phase = "rendered"
    /\ ~row.expires_at.nan
    /\ row.now - row.expires_at.n > MsPerDay
    /\ row.days = Num(0)

\* C12 (as claimed): a click on a row's edit button fills the name field with the
\* record's name and the days field with the row's days-remaining value, 0 for an
\* expired record.
C12_EditPrefill ==
    (row.phase = "editing" /\ ~row.days.nan) =>
        /\ row.editVideoName = row.video_name
        /\ row.editDaysValid = row.days.n

\* The requests a step has sent: those in flight after it that were not before
\* (the backend's steps only mark a request processed).
SentNow == {r \in BagToSet(inflight' (-) inflight) : ~r.done}

C14_RefreshNeverThrows ==
    [][/\ last'.log.thrown = ""
       /\ (last'.log.refreshes > 0 /\ last'.log.sent = 0) =>
             /\ last'.log.apiError = "Not authenticated"
             /\ table' = ErrorRow
       /\ (/\ last'.act = "ListResponse"
           /\ BagCardinality(inflight') < BagCardinality(inflight)) =>
             \E r \in BagToSet(inflight (-) inflight') :
                /\ r.kind = "list"
                /\ last'.status \in FailStatuses => table' = ErrorRow
                /\ last'.status = "200" =>
                      /\ r.done
                      /\ table' = IF r.rows = {} THEN EmptyRow ELSE Rows(r.rows)
                /\ last'.status = "204" => table' = EmptyRow]_vars

\* A list request was answered 401: the error row is shown under the login view.
C14_Witness ==
    /\ last.act = "ListResponse"
    /\ last.status = "401"
    /\ table = ErrorRow
    /\ view = "login"
    /\ last.log.thrown = ""

\* C16: between handler runs the token in memory and the token persisted under
\* 'kinpeek_token' agree: both absent, or both the same value.
C16_TokenAgreesWithStore ==
    \/ authToken = Null /\ localStorage = Null
    \/ Truthy(authToken) /\ localStorage = authToken

\* A 200 login response without access_token was handled: 'undefined' was stored
\* and removed again within the run.
C16_Witness ==
    /\ last.act = "LoginResponse"
    /\ last.status = "200"
    /\ last.tok = Undefined
    /\ authToken = Null
    /\ localStorage = Null

\* C17: between handler runs the admin view is shown exactly when a token is
\* present and the login view exactly when none is, also after a login success
\* response that carries no access_token.
C17_ViewFollowsToken ==
    /\ view \in {"login", "admin"}
    /\ view = "admin" <=> Truthy(authToken)
    /\ view = "login" <=> ~Truthy(authToken)

\* A 200 login response without access_token was handled: the refresh started by
\* showAdmin ran into the token check, and the run ends in the login view.
C17_Witness ==
    /\ last.act = "LoginResponse"
    /\ last.status = "200"
    /\ ~Truthy(last.tok)
    /\ last.log.apiError = "Not authenticated"
    /\ view = "login"
    /\ ~Truthy(authToken)

\* The handler runs of each form: those started by the user, which call
\* clearMessages first, and the continuations that handle the response.
LoginRuns == {"LoginSubmit", "LoginResponse"}
CreateRuns == {"LookupTitle", "TitleResponse", "ShareSubmit", "ShareResponse"}
EditRuns == {"SaveEdit", "EditResponse"}
StartedRuns == {"LoginSubmit", "LookupTitle", "ShareSubmit", "SaveEdit", "EditOpen"}
ResponseRuns == {"LoginResponse", "TitleResponse", "ShareResponse", "EditResponse"}

\* C15 (as claimed): a handler run of one form leaves the message elements of the
\* other forms as they were.
C15_OtherMessagesUnchanged ==
    [][/\ last'.act \in LoginRuns => UNCHANGED <<shareMessage, shareError, editError>>
       /\ last'.act \in CreateRuns => UNCHANGED <<loginError, editError>>
       /\ last'.act \in EditRuns => UNCHANGED <<loginError, shareMessage, shareError>>]_vars

\* C15 (amended): a run that handles the response of one form leaves the message
\* elements of the other forms as they were, and a run started by a submission, a
\* lookup or the opening of the edit dialog leaves them empty; no run writes a
\* text into a message element of another form.
C15_OtherMessagesKeptOrEmptied ==
    [][/\ (last'.act \in ResponseRuns \cap LoginRuns) =>
             UNCHANGED <<shareMessage, shareError, editError>>
       /\ (last'.act \in ResponseRuns \cap CreateRuns) =>
             UNCHANGED <<loginError, editError>>
       /\ (last'.act \in ResponseRuns \cap EditRuns) =>
             UNCHANGED <<loginError, shareMessage, shareError>>
       /\ (last'.act \in StartedRuns \cap LoginRuns) =>
             (shareMessage' = "" /\ shareError' = "" /\ editError' = "")
       /\ (last'.act \in StartedRuns \cap CreateRuns) =>
             (loginError' = "" /\ editError' = "")
       /\ (last'.act \in {"SaveEdit", "EditOpen"}) =>
             (loginError' = "" /\ shareMessage' = "" /\ shareError' = "")
       /\ loginError' \notin {loginError, ""} => last'.act \in LoginRuns
       /\ shareMessage' \notin {shareMessage, ""} => last'.act \in CreateRuns
       /\ shareError' \notin {shareError, ""} => last'.act \in CreateRuns
       /\ editError' \notin {editError, ""} => last'.act \in EditRuns]_vars

\* A create request failed while the edit dialog was showing its own error: the
\* create error was written and the edit error stayed.
C15_Witness ==
    /\ last.act = "ShareResponse"
    /\ last.status \in FailStatuses
    /\ shareError = "Failed to share video"
    /\ editError = "Please fill in all fields correctly."

\* C18 (as claimed): handling a 401 to a request that carried another token than
\* the current one leaves the current token, the persisted token and the view as
\* they were.
C18_LateUnauthorizedKeepsSession ==
    [][(/\ last'.act \in ProtectedResponses
        /\ last'.status = "401"
        /\ BagCardinality(inflight') < BagCardinality(inflight)
        /\ Truthy(authToken)
        /\ Truthy(last'.tok)
        /\ last'.tok # authToken)
       => (/\ authToken' = authToken
           /\ localStorage' = localStorage
           /\ view' = view)]_vars

\* C19 (as claimed): from a logout until the next submission of the login form the
\* login view is shown and no token is held.
C19_LoggedOutUntilNewLogin ==
    sinceLogout = "clean" => (view = "login" /\ ~Truthy(authToken) /\ ~Truthy(localStorage))

====
